---- MODULE Spec2Model ----
(***************************************************************************)
(* MotoGarage DSL: the tree-to-model translator (parse_* in src/lib.rs),   *)
(* the interpreter (Garage::execute) and the value coercions.              *)
(*                                                                         *)
(* Representation.                                                         *)
(*   String          a sequence of one-character strings                   *)
(*   Option<T>       <<>> for None, <<x>> for Some(x)                      *)
(*   u32             <<hi, lo>>, two 16-bit limbs (value hi * 65536 + lo), *)
(*                   so that the whole range 0 .. 4294967295 is exact      *)
(*   Value           <<"Number", n>>, <<"StringType", s>>,                 *)
(*                   <<"StringLiteral", s>>                                *)
(*   Command         <<"Definition", bike>>, <<"Get", query>>,             *)
(*                   <<"Count", query>>                                    *)
(*   Result<T, E>    <<"Ok", x>> or <<"Err", e>>                           *)
(***************************************************************************)
EXTENDS Integers, Sequences, FiniteSets, TLC

VARIABLES
    bikes,      \* Garage.bikes, the record store
    results,    \* execute's local `results`
    command,    \* execute's loop variable, the command last taken from the program
    before,     \* history: [bikes, results] as they were before that command
    pc,         \* "idle" (no call in progress) or "loop" (inside execute's for loop)
    executed,   \* history: commands executed so far, over all calls
    defined,    \* history: Definition commands executed so far, over all calls
    calls,      \* history: calls of execute so far
    returned,   \* the value the last call of execute returned
    source,     \* main: the syntax tree of the file being run
    ast,        \* main: the Program parse_moto_file returned
    mpc,        \* main: "read", "parsed", "done"
    program,    \* twin run: the Program given to both garages
    tstore,     \* twin run: the store of garage 1 and garage 2
    tout,       \* twin run: the results of each call
    tidx,       \* twin run: how many commands each call has executed
    tret        \* twin run: what each call returned

vars == <<bikes, results, command, before, pc, executed, defined, calls, returned,
          source, ast, mpc, program, tstore, tout, tidx, tret>>

interpVars == <<bikes, results, command, before, pc, executed, defined, calls, returned>>
mainVars == <<source, ast, mpc>>
twinVars == <<program, tstore, tout, tidx, tret>>

----------------------------------------------------------------------------
(* Bounds of the model.                                                    *)

\* commands executed over all calls of execute on the one Garage
MaxCommands == 3
\* calls of execute on the one Garage
MaxCalls == 2
\* properties in the property block of a definition
MaxProps == 2
\* commands in the program of the twin run
MaxTwinLen == 3

----------------------------------------------------------------------------
(* Option, text and number helpers.                                        *)

None == <<>>
Some(x) == <<x>>
Unwrap(o) == o[1]
unwrap_or(o, d) == IF o = <<>> THEN d ELSE o[1]

LimbBase == 65536
U32(n) == <<n \div LimbBase, n % LimbBase>>
U32Zero == <<0, 0>>

Digits == {"0", "1", "2", "3", "4", "5", "6", "7", "8", "9"}
DigitVal(c) ==
    CASE c = "0" -> 0 [] c = "1" -> 1 [] c = "2" -> 2 [] c = "3" -> 3 [] c = "4" -> 4
      [] c = "5" -> 5 [] c = "6" -> 6 [] c = "7" -> 7 [] c = "8" -> 8 [] c = "9" -> 9
DigitChar(d) == <<"0", "1", "2", "3", "4", "5", "6", "7", "8", "9">>[d + 1]

\* acc.checked_mul(10)?.checked_add(d): None when the result leaves 32 bits
checked_mul10_add(acc, d) ==
    LET t == acc[2] * 10 + d
        hi == acc[1] * 10 + (t \div LimbBase)
    IN  IF hi >= LimbBase THEN None ELSE Some(<<hi, t % LimbBase>>)

RECURSIVE parse_digits(_, _, _)
parse_digits(text, i, acc) ==
    IF i > Len(text) THEN Some(acc)
    ELSE IF text[i] \notin Digits THEN None
    ELSE LET next == checked_mul10_add(acc, DigitVal(text[i]))
         IN  IF next = None THEN None ELSE parse_digits(text, i + 1, Unwrap(next))

\* str::parse::<u32>(): Err on the empty text, on a non-digit and on overflow
parse_u32(text) == IF text = <<>> THEN None ELSE parse_digits(text, 1, U32Zero)

RECURSIVE str_replace_cc(_)
\* str::replace("cc", ""): every non-overlapping "cc", left to right
str_replace_cc(text) ==
    IF text = <<>> THEN <<>>
    ELSE IF Len(text) >= 2 /\ text[1] = "c" /\ text[2] = "c"
         THEN str_replace_cc(SubSeq(text, 3, Len(text)))
    ELSE <<text[1]>> \o str_replace_cc(Tail(text))

RECURSIVE trim_start_quotes(_)
trim_start_quotes(text) ==
    IF text # <<>> /\ text[1] = "\"" THEN trim_start_quotes(Tail(text)) ELSE text

RECURSIVE trim_end_quotes(_)
trim_end_quotes(text) ==
    IF text # <<>> /\ text[Len(text)] = "\""
    THEN trim_end_quotes(SubSeq(text, 1, Len(text) - 1)) ELSE text

\* str::trim_matches('"'): every leading and every trailing quote
trim_matches_quote(text) == trim_end_quotes(trim_start_quotes(text))

RECURSIVE usize_to_string(_)
\* Display for usize
usize_to_string(n) ==
    IF n < 10 THEN <<DigitChar(n)>>
    ELSE usize_to_string(n \div 10) \o <<DigitChar(n % 10)>>

BikesFound == <<"B", "i", "k", "e", "s", " ", "f", "o", "u", "n", "d", ":", " ">>

\* format!("Bikes found: {}", count)
format_count(count) == BikesFound \o usize_to_string(count)

----------------------------------------------------------------------------
(* The abstract syntax tree.                                               *)

Number(n) == <<"Number", n>>
StringType(s) == <<"StringType", s>>
StringLiteral(s) == <<"StringLiteral", s>>

Motorcycle(name, year, engine_cc, bike_type) ==
    [name |-> name, year |-> year, engine_cc |-> engine_cc, bike_type |-> bike_type]

\* Motorcycle::default()
MotorcycleDefault == Motorcycle(<<>>, None, None, None)

Condition(field, operator, value) ==
    [field |-> field, operator |-> operator, value |-> value]

\* Query { condition }
Query(condition) == condition

Definition(bike) == <<"Definition", bike>>
Get(query) == <<"Get", query>>
Count(query) == <<"Count", query>>

value_as_number(value) ==
    CASE value[1] = "Number" -> value[2]
      [] value[1] \in {"StringType", "StringLiteral"} -> U32Zero

value_as_string(value) ==
    CASE value[1] = "StringType" -> value[2]
      [] value[1] = "StringLiteral" -> value[2]
      [] value[1] = "Number" -> <<>>

U32Gt(a, b) == a[1] > b[1] \/ (a[1] = b[1] /\ a[2] > b[2])

\* compare with ">" read as "not less than"
compare_ge(a, op, b) ==
    CASE op = "=" -> a = b
      [] op = ">" -> ~U32Gt(b, a)
      [] op = "<" -> U32Gt(b, a)
      [] OTHER -> FALSE

compare(a, op, b) ==
    CASE op = "=" -> a = b
      [] op = ">" -> U32Gt(a, b)
      [] op = "<" -> U32Gt(b, a)
      [] OTHER -> FALSE

\* matches with an unknown field matching every record
matches_any_field(bike, condition) ==
    CASE condition.field = "type" ->
           IF bike.bike_type = None THEN FALSE
           ELSE Unwrap(bike.bike_type) = value_as_string(condition.value)
      [] condition.field = "year" ->
           IF bike.year = None THEN FALSE
           ELSE compare(Unwrap(bike.year), condition.operator,
                        value_as_number(condition.value))
      [] condition.field = "engine" ->
           IF bike.engine_cc = None THEN FALSE
           ELSE compare(Unwrap(bike.engine_cc), condition.operator,
                        value_as_number(condition.value))
      [] OTHER -> TRUE

\* matches with "type" honouring the operator: only "=" can match
matches_type_eq_only(bike, condition) ==
    CASE condition.field = "type" ->
           IF bike.bike_type = None \/ condition.operator # "=" THEN FALSE
           ELSE Unwrap(bike.bike_type) = value_as_string(condition.value)
      [] condition.field = "year" ->
           IF bike.year = None THEN FALSE
           ELSE compare(Unwrap(bike.year), condition.operator,
                        value_as_number(condition.value))
      [] condition.field = "engine" ->
           IF bike.engine_cc = None THEN FALSE
           ELSE compare(Unwrap(bike.engine_cc), condition.operator,
                        value_as_number(condition.value))
      [] OTHER -> FALSE

matches(bike, condition) ==
    CASE condition.field = "type" ->
           IF bike.bike_type = None THEN FALSE
           ELSE Unwrap(bike.bike_type) = value_as_string(condition.value)
      [] condition.field = "year" ->
           IF bike.year = None THEN FALSE
           ELSE compare(Unwrap(bike.year), condition.operator,
                        value_as_number(condition.value))
      [] condition.field = "engine" ->
           IF bike.engine_cc = None THEN FALSE
           ELSE compare(Unwrap(bike.engine_cc), condition.operator,
                        value_as_number(condition.value))
      [] OTHER -> FALSE

----------------------------------------------------------------------------
(* The interpreter.                                                        *)

\* Garage::new(): the empty store
GarageNew == <<>>

\* query.condition.as_ref().map_or(true, |c| bike.matches(c))
query_matches(bike, query) == IF query = None THEN TRUE ELSE matches(bike, Unwrap(query))

\* filter_bikes scanning one store shared by every Garage (that of the first)
filter_bikes_shared(store, query) ==
    SelectSeq(tstore[1], LAMBDA bike : query_matches(bike, query))

filter_bikes(store, query) == SelectSeq(store, LAMBDA bike : query_matches(bike, query))

MapNames(bs) == [i \in 1..Len(bs) |-> bs[i].name]

\* run_query_get collecting the names last record first
run_query_get_reversed(store, query) ==
    LET names == MapNames(filter_bikes(store, query))
    IN  [i \in 1..Len(names) |-> names[Len(names) + 1 - i]]

run_query_get(store, query) == MapNames(filter_bikes(store, query))

\* ExecCommand with Count counting the whole store
ExecCommand_count_all(store, res, cmd) ==
    CASE cmd[1] = "Definition" ->
           [bikes |-> Append(store, cmd[2]), results |-> res]
      [] cmd[1] = "Get" ->
           [bikes |-> store, results |-> res \o run_query_get(store, cmd[2])]
      [] cmd[1] = "Count" ->
           [bikes |-> store, results |-> Append(res, format_count(Len(store)))]

\* ExecCommand with a Definition replacing the stored record of the same name
ExecCommand_upsert(store, res, cmd) ==
    CASE cmd[1] = "Definition" ->
           [bikes |-> IF \E i \in 1..Len(store) : store[i].name = cmd[2].name
                      THEN [i \in 1..Len(store) |->
                               IF store[i].name = cmd[2].name THEN cmd[2] ELSE store[i]]
                      ELSE Append(store, cmd[2]),
            results |-> res]
      [] cmd[1] = "Get" ->
           [bikes |-> store, results |-> res \o run_query_get(store, cmd[2])]
      [] cmd[1] = "Count" ->
           [bikes |-> store,
            results |-> Append(res, format_count(Len(filter_bikes(store, cmd[2]))))]

\* one iteration of execute's for loop: the store and the results after `cmd`
ExecCommand(store, res, cmd) ==
    CASE cmd[1] = "Definition" ->
           [bikes |-> Append(store, cmd[2]), results |-> res]
      [] cmd[1] = "Get" ->
           [bikes |-> store, results |-> res \o run_query_get(store, cmd[2])]
      [] cmd[1] = "Count" ->
           [bikes |-> store,
            results |-> Append(res, format_count(Len(filter_bikes(store, cmd[2]))))]

\* execute reporting an empty result as an error
execute_return_empty_err(res) ==
    IF res = <<>> THEN <<"Err", <<"InterpreterError">>>> ELSE <<"Ok", res>>

\* Ok(results)
execute_return(res) == <<"Ok", res>>

RECURSIVE execute_loop(_, _, _, _)
execute_loop(store, res, prog, i) ==
    IF i > Len(prog) THEN [bikes |-> store, results |-> res]
    ELSE LET r == ExecCommand(store, res, prog[i])
         IN  execute_loop(r.bikes, r.results, prog, i + 1)

\* Garage::execute as one call: the store afterwards and the value returned
execute(store, prog) ==
    LET r == execute_loop(store, <<>>, prog, 1)
    IN  [bikes |-> r.bikes, returned |-> execute_return(r.results)]

----------------------------------------------------------------------------
(* The translator.  A pest Pair is [rule, str, inner]: as_rule(), as_str() *)
(* and into_inner().  A text that is only compared whole (a field name, an *)
(* operator) is a TLA+ string; a text that is converted is a sequence of   *)
(* characters.  `str` is <<>> on the pairs whose text the code never reads.*)

Pair(rule, str, inner) == [rule |-> rule, str |-> str, inner |-> inner]

parse_string_literal(pair) == trim_matches_quote(pair.str)

\* parse_value leaving the unit on a number_with_unit
parse_value_keep_unit(pair) ==
    LET inner == pair.inner[1]
    IN  CASE inner.rule = "number" ->
               Number(unwrap_or(parse_u32(inner.str), U32Zero))
          [] inner.rule = "number_with_unit" ->
               Number(unwrap_or(parse_u32(inner.str), U32Zero))
          [] inner.rule = "ident" -> StringType(inner.str)
          [] inner.rule = "string_literal" -> StringLiteral(parse_string_literal(inner))

parse_value(pair) ==
    LET inner == pair.inner[1]
    IN  CASE inner.rule = "number" ->
               Number(unwrap_or(parse_u32(inner.str), U32Zero))
          [] inner.rule = "number_with_unit" ->
               Number(unwrap_or(parse_u32(str_replace_cc(inner.str)), U32Zero))
          [] inner.rule = "ident" -> StringType(inner.str)
          [] inner.rule = "string_literal" -> StringLiteral(parse_string_literal(inner))

\* set_property with every other property name read as the type
set_property_other_is_type(bike, prop_pair) ==
    LET field_name == prop_pair.inner[1].str
        value_pair == prop_pair.inner[2]
    IN  CASE field_name = "year" ->
               [bike EXCEPT !.year = Some(value_as_number(parse_value(value_pair)))]
          [] field_name = "engine" ->
               [bike EXCEPT !.engine_cc = Some(value_as_number(parse_value(value_pair)))]
          [] OTHER ->
               [bike EXCEPT !.bike_type = Some(value_as_string(parse_value(value_pair)))]

\* the body of parse_definition's loop over the properties
set_property(bike, prop_pair) ==
    LET field_name == prop_pair.inner[1].str
        value_pair == prop_pair.inner[2]
    IN  CASE field_name = "year" ->
               [bike EXCEPT !.year = Some(value_as_number(parse_value(value_pair)))]
          [] field_name = "engine" ->
               [bike EXCEPT !.engine_cc = Some(value_as_number(parse_value(value_pair)))]
          [] field_name = "type" ->
               [bike EXCEPT !.bike_type = Some(value_as_string(parse_value(value_pair)))]
          [] OTHER -> bike

RECURSIVE parse_properties(_, _, _)
\* parse_definition's loop: the bike after the first n properties
parse_properties(bike, properties_pairs, n) ==
    IF n = 0 THEN bike
    ELSE set_property(parse_properties(bike, properties_pairs, n - 1), properties_pairs[n])

parse_definition(pair) ==
    LET name == parse_string_literal(pair.inner[1])
        bike == [MotorcycleDefault EXCEPT !.name = name]
        properties_pairs == pair.inner[2].inner
    IN  parse_properties(bike, properties_pairs, Len(properties_pairs))

parse_condition(pair) ==
    Condition(pair.inner[1].str, pair.inner[2].str, parse_value(pair.inner[3]))

parse_query(pair) ==
    LET where_clause_pair == IF pair.inner = <<>> THEN None ELSE Some(pair.inner[1])
        condition_pair == IF where_clause_pair = None THEN None
                          ELSE Some(Unwrap(where_clause_pair).inner[1])
    IN  Query(IF condition_pair = None THEN None
              ELSE Some(parse_condition(Unwrap(condition_pair))))

parse_command(pair) ==
    LET inner == pair.inner[1]
    IN  CASE inner.rule = "definition" -> Definition(parse_definition(inner))
          [] inner.rule = "query_get" -> Get(parse_query(inner))
          [] inner.rule = "query_count" -> Count(parse_query(inner))

\* parse_moto_file on the `file` pair the recognizer returned: the commands, EOI skipped
parse_moto_file(file_pair) ==
    LET commands == SelectSeq(file_pair.inner, LAMBDA pair : pair.rule = "command")
    IN  <<"Ok", [i \in 1..Len(commands) |-> parse_command(commands[i])]>>

----------------------------------------------------------------------------
(* The syntax trees of the files main is run on, built as the grammar      *)
(* builds them.                                                            *)

T_A == <<"A">>
T_B == <<"B">>
T_C == <<"C">>
T_sport == <<"s", "p", "o", "r", "t">>
T_cruiser == <<"c", "r", "u", "i", "s", "e", "r">>

Quoted(text) == <<"\"">> \o text \o <<"\"">>
T_cc == <<"c", "c">>
T_2021 == <<"2", "0", "2", "1">>
T_007 == <<"0", "0", "7">>
T_599 == <<"5", "9", "9">>
T_U32Max == <<"4", "2", "9", "4", "9", "6", "7", "2", "9", "5">>
T_U32Over == <<"4", "2", "9", "4", "9", "6", "7", "2", "9", "6">>
T_H == <<"H">>
T_K1 == <<"K", " ", "1">>

IdentPair(text) == Pair("ident", text, <<>>)
ValuePair(rule, text) == Pair("value", <<>>, <<Pair(rule, text, <<>>)>>)
PropertyPair(field, value) == Pair("property", <<>>, <<IdentPair(field), value>>)
DefinitionPair(literal, props) ==
    Pair("definition", <<>>,
         <<Pair("string_literal", literal, <<>>), Pair("properties", <<>>, props)>>)
ConditionPair(field, op, value) ==
    Pair("condition", <<>>, <<IdentPair(field), Pair("operator", op, <<>>), value>>)
QueryPair(rule, where) ==
    Pair(rule, <<>>, IF where = None THEN <<>>
                     ELSE <<Pair("where_clause", <<>>, <<Unwrap(where)>>)>>)
CommandPair(inner) == Pair("command", <<>>, <<inner>>)
FilePair(commands) == Pair("file", <<>>, commands \o <<Pair("EOI", <<>>, <<>>)>>)

SourceValues ==
    {ValuePair("number", T_2021), ValuePair("number", T_007),
     ValuePair("number", T_U32Max), ValuePair("number", T_U32Over),
     ValuePair("number_with_unit", T_599 \o T_cc),
     ValuePair("ident", T_sport), ValuePair("string_literal", Quoted(T_sport))}

SourceFieldNames == {"year", "engine", "type", "color"}

SourceProperties == {PropertyPair(f, v) : f \in SourceFieldNames, v \in SourceValues}

SeqsUpTo(S, n) == UNION {[1..k -> S] : k \in 0..n}

SourceDefinitions ==
    {DefinitionPair(Quoted(name), props) :
        name \in {T_H, T_K1}, props \in SeqsUpTo(SourceProperties, MaxProps)}

SourceQueries ==
    {QueryPair("query_count", None),
     QueryPair("query_get",
               Some(ConditionPair("type", "=", ValuePair("ident", T_sport))))}

SourceFiles ==
    {FilePair(<<CommandPair(d), CommandPair(q)>>) :
        d \in SourceDefinitions, q \in SourceQueries}

----------------------------------------------------------------------------
(* The inputs of the interpreter: what a caller can put in a Program.      *)

BikeSport == Motorcycle(T_A, Some(U32(2010)), Some(U32(599)), Some(T_sport))
BikeCruiser == Motorcycle(T_B, Some(U32(2022)), Some(U32(65541)), Some(T_cruiser))
BikeBare == Motorcycle(T_A, None, None, None)
BikeZero == Motorcycle(T_C, Some(U32Zero), Some(U32Zero), Some(<<>>))

Motorcycles == {BikeSport, BikeCruiser, BikeBare, BikeZero}

KnownFields == {"type", "year", "engine"}
Fields == KnownFields \cup {"name", "color"}
Operators == {"=", ">", "<", "!="}
Values == {Number(U32Zero), Number(U32(599)), Number(U32(2015)),
           StringType(T_sport), StringLiteral(T_sport)}

Conditions == {Condition(f, o, v) : f \in Fields, o \in Operators, v \in Values}
Queries == {Query(None)} \cup {Query(Some(c)) : c \in Conditions}

----------------------------------------------------------------------------
(* Garage::execute, one command of the program per step.  The program is   *)
(* the caller's: each iteration takes the next command, any command.       *)

NoCommand == <<>>
NoReturn == <<>>

Snapshot(store, res) == [bikes |-> store, results |-> res]

InitInterp ==
    /\ bikes = GarageNew
    /\ results = <<>>
    /\ command = NoCommand
    /\ before = Snapshot(GarageNew, <<>>)
    /\ pc = "idle"
    /\ executed = 0
    /\ defined = 0
    /\ calls = 0
    /\ returned = NoReturn

IdleMain == source = <<>> /\ ast = <<>> /\ mpc = "off"
IdleTwin ==
    /\ program = <<>>
    /\ tstore = <<GarageNew, GarageNew>>
    /\ tout = <<<<>>, <<>>>>
    /\ tidx = <<0, 0>>
    /\ tret = <<NoReturn, NoReturn>>

Init == InitInterp /\ IdleMain /\ IdleTwin

\* let mut results = Vec::new();
CallExecute ==
    /\ pc = "idle"
    /\ calls < MaxCalls
    /\ pc' = "loop"
    /\ results' = <<>>
    /\ command' = NoCommand
    /\ before' = Snapshot(bikes, <<>>)
    /\ calls' = calls + 1
    /\ returned' = NoReturn
    /\ UNCHANGED <<bikes, executed, defined, mainVars, twinVars>>

\* the effect of one iteration of the loop on `cmd`
Step(cmd) ==
    LET r == ExecCommand(bikes, results, cmd)
    IN  /\ command' = cmd
        /\ before' = Snapshot(bikes, results)
        /\ bikes' = r.bikes
        /\ results' = r.results
        /\ executed' = executed + 1
        /\ defined' = IF cmd[1] = "Definition" THEN defined + 1 ELSE defined
        /\ UNCHANGED <<pc, calls, returned, mainVars, twinVars>>

\* Command::Definition(bike) => self.bikes.push(bike)
ExecDefinition ==
    /\ pc = "loop"
    /\ executed < MaxCommands
    /\ \E bike \in Motorcycles : Step(Definition(bike))

\* Command::Get(query) => results.extend(self.run_query_get(query))
ExecGet ==
    /\ pc = "loop"
    /\ executed < MaxCommands
    /\ \E query \in Queries : Step(Get(query))

\* Command::Count(query) => results.push(format!("Bikes found: {}", count))
ExecCount ==
    /\ pc = "loop"
    /\ executed < MaxCommands
    /\ \E query \in Queries : Step(Count(query))

\* the program is exhausted: Ok(results)
ReturnOk ==
    /\ pc = "loop"
    /\ pc' = "idle"
    /\ returned' = execute_return(results)
    /\ UNCHANGED <<bikes, results, command, before, executed, defined, calls,
                   mainVars, twinVars>>

Next == CallExecute \/ ExecDefinition \/ ExecGet \/ ExecCount \/ ReturnOk

Spec == Init /\ [][Next]_vars

----------------------------------------------------------------------------
(* main: parse_moto_file on the file, then execute on a new Garage.        *)

IdleInterp ==
    /\ results = <<>>
    /\ command = NoCommand
    /\ before = Snapshot(GarageNew, <<>>)
    /\ pc = "idle"
    /\ executed = 0
    /\ defined = 0
    /\ calls = 0

InitMain ==
    /\ source \in SourceFiles
    /\ ast = <<>>
    /\ mpc = "read"
    /\ bikes = GarageNew
    /\ returned = NoReturn
    /\ IdleInterp
    /\ IdleTwin

\* let ast = parse_moto_file(&content)?;
ParseMotoFile ==
    /\ mpc = "read"
    /\ LET r == parse_moto_file(source)
       IN  /\ ast' = IF r[1] = "Ok" THEN r[2] ELSE <<>>
           /\ mpc' = IF r[1] = "Ok" THEN "parsed" ELSE "failed"
    /\ UNCHANGED <<source, interpVars, twinVars>>

\* let mut garage = Garage::new(); let results = garage.execute(ast)?;
RunGarage ==
    /\ mpc = "parsed"
    /\ LET r == execute(GarageNew, ast)
       IN  /\ bikes' = r.bikes
           /\ returned' = r.returned
           /\ mpc' = IF r.returned[1] = "Ok" THEN "done" ELSE "failed"
    /\ UNCHANGED <<source, ast, results, command, before, pc, executed, defined, calls,
                   twinVars>>

NextMain == ParseMotoFile \/ RunGarage

SpecMain == InitMain /\ [][NextMain]_vars

----------------------------------------------------------------------------
(* Two Garages, each new, each given the same Program; the two calls of    *)
(* execute advance independently, one command per step.                    *)

TwinCommands ==
    {Definition(BikeSport), Definition(BikeCruiser), Definition(BikeBare),
     Get(Query(None)),
     Get(Query(Some(Condition("type", "=", StringType(T_sport))))),
     Count(Query(Some(Condition("year", ">", Number(U32(2015))))))}

TwinPrograms == SeqsUpTo(TwinCommands, MaxTwinLen)

InitTwin ==
    /\ program \in TwinPrograms
    /\ tstore = <<GarageNew, GarageNew>>
    /\ tout = <<<<>>, <<>>>>
    /\ tidx = <<0, 0>>
    /\ tret = <<NoReturn, NoReturn>>
    /\ InitInterp
    /\ IdleMain

TwinStep(k) ==
    /\ tret[k] = NoReturn
    /\ tidx[k] < Len(program)
    /\ LET r == ExecCommand(tstore[k], tout[k], program[tidx[k] + 1])
       IN  /\ tstore' = [tstore EXCEPT ![k] = r.bikes]
           /\ tout' = [tout EXCEPT ![k] = r.results]
    /\ tidx' = [tidx EXCEPT ![k] = tidx[k] + 1]
    /\ UNCHANGED <<program, tret, interpVars, mainVars>>

TwinReturn(k) ==
    /\ tret[k] = NoReturn
    /\ tidx[k] = Len(program)
    /\ tret' = [tret EXCEPT ![k] = execute_return(tout[k])]
    /\ UNCHANGED <<program, tstore, tout, tidx, interpVars, mainVars>>

NextTwin == \E k \in {1, 2} : TwinStep(k) \/ TwinReturn(k)

SpecTwin == InitTwin /\ [][NextTwin]_vars

----------------------------------------------------------------------------
(* What the claims say, stated without the interpreter's operators.        *)

IsCmd(kind) == command # NoCommand /\ command[1] = kind
HasCondition == command # NoCommand /\ command[1] \in {"Get", "Count"} /\ command[2] # None
TheCondition == command[2][1]

\* the value of a u32 below 2^31
NatOf(n) == n[1] * LimbBase + n[2]

\* the names of the records of `store` at the positions in S, in store order
NamesAt(store, S) ==
    LET F[i \in 0..Len(store)] ==
            IF i = 0 THEN <<>>
            ELSE IF i \in S THEN Append(F[i - 1], store[i].name) ELSE F[i - 1]
    IN  F[Len(store)]

\* the value of a decimal numeral
DecimalValue(d) ==
    LET F[i \in 0..Len(d)] == IF i = 0 THEN 0 ELSE F[i - 1] * 10 + DigitVal(d[i])
    IN  F[Len(d)]

\* `line` is "Bikes found: " followed by the decimal numeral of n
IsCountLine(line, n) ==
    LET k == Len(BikesFound)
        d == SubSeq(line, k + 1, Len(line))
    IN  /\ Len(line) > k
        /\ SubSeq(line, 1, k) = BikesFound
        /\ \A i \in 1..Len(d) : d[i] \in Digits
        /\ (Len(d) > 1 => d[1] # "0")
        /\ DecimalValue(d) = n

AsNumber(v) == IF v[1] = "Number" THEN v[2] ELSE U32Zero
AsText(v) == IF v[1] = "Number" THEN <<>> ELSE v[2]

NumberHolds(field, op, v) ==
    /\ field # None
    /\ LET a == NatOf(field[1])
           b == NatOf(AsNumber(v))
       IN  \/ op = "=" /\ a = b
           \/ op = ">" /\ a > b
           \/ op = "<" /\ a < b

TextHolds(field, v) == field # None /\ field[1] = AsText(v)

ConditionHolds(bike, c) ==
    \/ c.field = "type" /\ TextHolds(bike.bike_type, c.value)
    \/ c.field = "year" /\ NumberHolds(bike.year, c.operator, c.value)
    \/ c.field = "engine" /\ NumberHolds(bike.engine_cc, c.operator, c.value)

QueryHolds(bike, q) == q = None \/ ConditionHolds(bike, q[1])

\* the lines the last command added to the results
Contribution == SubSeq(results, Len(before.results) + 1, Len(results))
Extends == Len(results) >= Len(before.results)
             /\ SubSeq(results, 1, Len(before.results)) = before.results

\* C1: a Get adds exactly the names of the records of the store (as it stands
\* when the Get runs) that match its query, one line each, in insertion order,
\* duplicates included; with no condition, the name of every record.
C1_GetOutput ==
    IsCmd("Get") =>
        /\ Extends
        /\ Contribution = NamesAt(before.bikes,
                                  {i \in 1..Len(before.bikes) :
                                      QueryHolds(before.bikes[i], command[2])})
        /\ (command[2] = None =>
                Contribution = [i \in 1..Len(before.bikes) |-> before.bikes[i].name])

C1_Witness ==
    /\ IsCmd("Get")
    /\ command[2] = None
    /\ Len(Contribution) = 2
    /\ Contribution[1] = Contribution[2]
    /\ before.bikes[1] # before.bikes[2]

C1_WitnessFiltered ==
    /\ IsCmd("Get")
    /\ command[2] # None
    /\ Len(Contribution) = 1
    /\ Len(bikes) = 2
    /\ Contribution[1] = bikes[2].name
    /\ bikes[1].name # bikes[2].name

\* C2: a Count adds exactly one line, "Bikes found: " and the decimal number of
\* the records of the store that match its query; every command leaves the lines
\* already produced in place, a call starts with no lines, and execute returns
\* the lines accumulated in program order.
C2_CountOutput ==
    /\ (command = NoCommand => results = <<>>)
    /\ (command # NoCommand => Extends)
    /\ (IsCmd("Definition") => Contribution = <<>>)
    /\ (IsCmd("Count") =>
            /\ Len(Contribution) = 1
            /\ IsCountLine(Contribution[1],
                           Cardinality({i \in 1..Len(before.bikes) :
                                           QueryHolds(before.bikes[i], command[2])})))
    /\ (pc = "idle" /\ calls > 0 => returned = <<"Ok", results>>)

C2_Witness ==
    /\ IsCmd("Count")
    /\ HasCondition
    /\ Len(bikes) = 2
    /\ Contribution = <<BikesFound \o <<"1">>>>

C2_WitnessReturned ==
    /\ pc = "idle"
    /\ returned # NoReturn
    /\ Len(returned[2]) = 2
    /\ returned[2][1] = BikesFound \o <<"0">>
    /\ returned[2][2] = BikesFound \o <<"1">>

\* C3: the store is append-only: every step leaves it as it was or appends one
\* record; a Definition appends its Motorcycle unchanged as the last element, Get
\* and Count (and call and return) leave the store unchanged; the length of the
\* store is the number of Definition commands executed so far.
C3_AppendOnly ==
    /\ [](Len(bikes) = defined)
    /\ [][/\ Len(bikes') >= Len(bikes)
          /\ SubSeq(bikes', 1, Len(bikes)) = bikes
          /\ (executed' = executed => bikes' = bikes)
          /\ (executed' # executed /\ command'[1] = "Definition" =>
                  bikes' = Append(bikes, command'[2]))
          /\ (executed' # executed /\ command'[1] \in {"Get", "Count"} =>
                  bikes' = bikes)]_vars

C3_Witness ==
    /\ calls = 2
    /\ defined = 2
    /\ before.bikes # bikes
    /\ bikes[1].name = bikes[2].name
    /\ bikes[1] # bikes[2]

\* C5: a condition on a field other than "type", "year", "engine" matches no
\* record, whatever the store, the operator and the value: a Get adds no line, a
\* Count adds "Bikes found: 0".
C5_UnknownField ==
    (HasCondition /\ TheCondition.field \notin {"type", "year", "engine"}) =>
        /\ Extends
        /\ (IsCmd("Get") => Contribution = <<>>)
        /\ (IsCmd("Count") => Contribution = <<BikesFound \o <<"0">>>>)

C5_Witness ==
    /\ IsCmd("Count")
    /\ HasCondition
    /\ TheCondition.field = "name"
    /\ TheCondition.operator = "="
    /\ Len(before.bikes) = 2
    /\ Contribution = <<BikesFound \o <<"0">>>>

\* C7: execute never returns an error: whatever the commands, the field names,
\* the operator texts and the Value variants, and whatever the store held before
\* the call, a call that has ended has returned Ok with the lines.
C7_NeverErr ==
    /\ (returned # NoReturn => returned[1] = "Ok")
    /\ (pc = "idle" /\ calls > 0 => returned # NoReturn /\ returned[1] = "Ok")

C7_Witness ==
    /\ pc = "idle"
    /\ calls = 2
    /\ returned = <<"Ok", <<>>>>
    /\ IsCmd("Get")
    /\ HasCondition
    /\ TheCondition.operator = "!="
    /\ TheCondition.field = "year"
    /\ TheCondition.value[1] = "StringLiteral"
    /\ Len(before.bikes) > 0

\* C9: on field "year" (resp. "engine") a record matches iff its year (resp.
\* engine) is present and a = b for "=", a > b for ">", a < b for "<", with a the
\* stored number and b the value read as a number (0 unless a Number); any other
\* operator, or an absent field, never matches.
C9_NumericCondition ==
    (HasCondition /\ TheCondition.field \in {"year", "engine"}) =>
        LET c == TheCondition
            stored(b) == IF c.field = "year" THEN b.year ELSE b.engine_cc
            S == {i \in 1..Len(before.bikes) :
                     NumberHolds(stored(before.bikes[i]), c.operator, c.value)}
        IN  /\ Extends
            /\ (IsCmd("Get") => Contribution = NamesAt(before.bikes, S))
            /\ (IsCmd("Count") =>
                    Contribution = <<BikesFound \o <<DigitChar(Cardinality(S))>>>>)

C9_Witness ==
    /\ IsCmd("Get")
    /\ HasCondition
    /\ TheCondition = Condition("engine", ">", Number(U32(599)))
    /\ Len(before.bikes) = 2
    /\ Len(Contribution) = 1
    /\ \E i \in 1..2 : before.bikes[i].engine_cc = None
    /\ \E i \in 1..2 : before.bikes[i].engine_cc = Some(U32(65541))

C9_WitnessDefault ==
    /\ IsCmd("Count")
    /\ HasCondition
    /\ TheCondition = Condition("year", "=", StringType(T_sport))
    /\ Contribution = <<BikesFound \o <<"1">>>>

\* C10: on field "type", whatever the operator text, a record matches iff its bike
\* type is present and equal as text to the value read as text (the text of a bare
\* identifier or of a quoted literal alike, the empty text for a Number).
C10_TypeCondition ==
    (HasCondition /\ TheCondition.field = "type") =>
        LET S == {i \in 1..Len(before.bikes) :
                     TextHolds(before.bikes[i].bike_type, TheCondition.value)}
        IN  /\ Extends
            /\ (IsCmd("Get") => Contribution = NamesAt(before.bikes, S))
            /\ (IsCmd("Count") =>
                    Contribution = <<BikesFound \o <<DigitChar(Cardinality(S))>>>>)

C10_Witness ==
    /\ IsCmd("Get")
    /\ HasCondition
    /\ TheCondition = Condition("type", "<", StringLiteral(T_sport))
    /\ Len(before.bikes) = 2
    /\ Len(Contribution) = 1
    /\ \E i \in 1..2 : before.bikes[i].bike_type = None
    /\ \E i \in 1..2 : before.bikes[i].bike_type = Some(T_sport)

C10_WitnessNumber ==
    /\ IsCmd("Count")
    /\ HasCondition
    /\ TheCondition = Condition("type", "=", Number(U32(599)))
    /\ Contribution = <<BikesFound \o <<"1">>>>

----------------------------------------------------------------------------
(* The translator's claims, stated on the file main was given.             *)

Parsed == mpc \in {"parsed", "done"}
SrcDefinition == source.inner[1].inner[1]
SrcQuery == source.inner[2].inner[1]
SrcLiteral == SrcDefinition.inner[1].str
SrcProps == SrcDefinition.inner[2].inner
PropField(p) == p.inner[1].str
PropLeaf(p) == p.inner[2].inner[1]
TheBike == ast[1][2]

RECURSIVE U32ToString(_)
\* Display for u32
U32ToString(n) ==
    IF n[1] = 0 /\ n[2] < 10 THEN <<DigitChar(n[2])>>
    ELSE LET t == (n[1] % 10) * LimbBase + n[2]
         IN  U32ToString(<<n[1] \div 10, t \div 10>>) \o <<DigitChar(t % 10)>>

RECURSIVE StripZeros(_)
\* a numeral without its leading zeros
StripZeros(d) == IF Len(d) > 1 /\ d[1] = "0" THEN StripZeros(Tail(d)) ELSE d

\* the value as written: a literal without its quotes, a number without its unit
\* and without leading zeros
WrittenText(leaf) ==
    CASE leaf.rule = "string_literal" -> SubSeq(leaf.str, 2, Len(leaf.str) - 1)
      [] leaf.rule = "number_with_unit" ->
           StripZeros(SubSeq(leaf.str, 1, Len(leaf.str) - 2))
      [] leaf.rule = "number" -> StripZeros(leaf.str)
      [] leaf.rule = "ident" -> leaf.str

\* a field of the Motorcycle written out again
Reserialized(field, opt) ==
    IF opt = None THEN None
    ELSE IF field = "type" THEN Some(opt[1]) ELSE Some(U32ToString(opt[1]))

BikeField(bike, field) ==
    CASE field = "year" -> bike.year
      [] field = "engine" -> bike.engine_cc
      [] field = "type" -> bike.bike_type

Occurrences(field) == {i \in 1..Len(SrcProps) : PropField(SrcProps[i]) = field}
LastOccurrence(field) == CHOOSE i \in Occurrences(field) : \A j \in Occurrences(field) : j <= i

\* a decimal numeral not above 4294967295
LexLeq(d, e) ==
    \/ d = e
    \/ \E i \in 1..Len(d) : d[i] # e[i] /\ DigitVal(d[i]) < DigitVal(e[i])
                            /\ \A j \in 1..(i - 1) : d[j] = e[j]
FitsU32(d) ==
    /\ Len(d) >= 1
    /\ \A i \in 1..Len(d) : d[i] \in Digits
    /\ (Len(d) < 10 \/ (Len(d) = 10 /\ LexLeq(d, T_U32Max)))

\* the value suits the field: a number that fits 32 bits for year and engine, a
\* bare identifier or a quoted literal for type
Suits(field, leaf) ==
    IF field = "type" THEN leaf.rule \in {"ident", "string_literal"}
    ELSE leaf.rule \in {"number", "number_with_unit"} /\ FitsU32(WrittenText(leaf))

\* C4 as claimed: whatever values the properties have, the Motorcycle carries the
\* name and every year, engine and type written in the source, and writing the
\* fields out again gives the values as written (a number up to its unit and its
\* leading zeros).
C4_RoundTripAnyValue ==
    Parsed =>
        /\ Quoted(TheBike.name) = SrcLiteral
        /\ \A field \in KnownFields :
               /\ (Occurrences(field) = {} <=> BikeField(TheBike, field) = None)
               /\ \A i \in Occurrences(field) :
                      Reserialized(field, BikeField(TheBike, field))
                          = Some(WrittenText(PropLeaf(SrcProps[i])))

\* C4, amended: the Motorcycle carries the name written; each of year, engine and
\* type is present iff a property of that name is written, and writing it out
\* again gives the value of the last such property (a number up to its unit and
\* its leading zeros), provided that value is a number, with or without cc, not
\* above 4294967295 for year and engine, a bare identifier or a quoted literal
\* for type.
C4_RoundTrip ==
    Parsed =>
        /\ Quoted(TheBike.name) = SrcLiteral
        /\ \A field \in KnownFields :
               /\ (Occurrences(field) = {} <=> BikeField(TheBike, field) = None)
               /\ (Occurrences(field) # {} =>
                      LET leaf == PropLeaf(SrcProps[LastOccurrence(field)])
                      IN  Suits(field, leaf) =>
                              Reserialized(field, BikeField(TheBike, field))
                                  = Some(WrittenText(leaf)))

C4_Witness ==
    /\ mpc = "parsed"
    /\ Len(SrcProps) = 2
    /\ PropField(SrcProps[1]) = "engine"
    /\ PropLeaf(SrcProps[1]).rule = "number_with_unit"
    /\ PropField(SrcProps[2]) = "type"
    /\ PropLeaf(SrcProps[2]).rule = "string_literal"
    /\ TheBike = Motorcycle(T_K1, None, Some(U32(599)), Some(T_sport))

C4_WitnessMax ==
    /\ mpc = "parsed"
    /\ Len(SrcProps) = 2
    /\ PropField(SrcProps[1]) = "year"
    /\ PropField(SrcProps[2]) = "year"
    /\ PropLeaf(SrcProps[1]).str = T_2021
    /\ PropLeaf(SrcProps[2]).str = T_U32Max
    /\ TheBike.year = Some(<<65535, 65535>>)

\* C6: a property named outside "year", "engine", "type" raises no error and
\* leaves every field of the Motorcycle being built unchanged; a definition with
\* only such properties gives a record with only the name set, and that record is
\* stored and counted by a following COUNT BIKES.
C6_UnknownPropertyIgnored ==
    LET start == [MotorcycleDefault EXCEPT !.name = SubSeq(SrcLiteral, 2, Len(SrcLiteral) - 1)]
        unknown(p) == PropField(p) \notin {"year", "engine", "type"}
        onlyUnknown == \A i \in 1..Len(SrcProps) : unknown(SrcProps[i])
    IN  /\ mpc # "failed"
        /\ Parsed =>
               /\ \A n \in 1..Len(SrcProps) :
                      unknown(SrcProps[n]) =>
                          parse_properties(start, SrcProps, n)
                              = parse_properties(start, SrcProps, n - 1)
               /\ TheBike = parse_properties(start, SrcProps, Len(SrcProps))
               /\ (onlyUnknown => TheBike = [start EXCEPT !.year = None,
                                                          !.engine_cc = None,
                                                          !.bike_type = None])
        /\ mpc = "done" =>
               /\ bikes = <<TheBike>>
               /\ (onlyUnknown /\ SrcQuery = QueryPair("query_count", None) =>
                      returned = <<"Ok", <<BikesFound \o <<"1">>>>>>)

C6_Witness ==
    /\ mpc = "done"
    /\ Len(SrcProps) = 2
    /\ \A i \in 1..2 : PropField(SrcProps[i]) = "color"
    /\ PropLeaf(SrcProps[1]).rule = "ident"
    /\ PropLeaf(SrcProps[2]).rule = "number"
    /\ SrcQuery = QueryPair("query_count", None)
    /\ bikes = <<Motorcycle(T_H, None, None, None)>>
    /\ returned = <<"Ok", <<BikesFound \o <<"1">>>>>>

C6_WitnessMixed ==
    /\ mpc = "parsed"
    /\ Len(SrcProps) = 2
    /\ PropField(SrcProps[1]) = "year"
    /\ PropField(SrcProps[2]) = "color"
    /\ TheBike.year = Some(U32(2021))

----------------------------------------------------------------------------
(* Two runs of one Program.                                                *)

====
